---- MODULE Spec2Model ----
(***************************************************************************)
(* Model of pydenticai/ai_agent.py: EmojiSuggestion (validated result),    *)
(* SentimentAnalyzer (keyword classifier and emoji library), the outcome   *)
(* of GeminiClient.generate, and AIAgent.suggest_emojis.                   *)
(*                                                                         *)
(* Strings are sequences of characters; a character is a one-element       *)
(* string atom.  An emoji character is an atom such as "e1".               *)
(***************************************************************************)
EXTENDS Integers, Sequences, FiniteSets, TLC

\* ------------------------------------------------------------------ bounds
\* A message is the concatenation of at most MaxFrags fragments.
MaxFrags == 2
\* A generated text holds at most MaxTokens whitespace-separated tokens.
MaxTokens == 18
\* A directly constructed emoji list has at most MaxListLen elements.
MaxListLen == 22

\* ------------------------------------------------------- program constants
MinEmojis == 3
MaxEmojis == 20
GenLimit == 15

\* ------------------------------------------------------------ list helpers
Min(a, b) == IF a < b THEN a ELSE b

\* v[:n]
Take(v, n) == SubSeq(v, 1, Min(n, Len(v)))

\* keyword in s  (substring test on character sequences)
Contains(sub, s) ==
    \E i \in 0..(Len(s) - Len(sub)) : SubSeq(s, i + 1, i + Len(sub)) = sub

\* ------------------------------------------------------------- str.lower()
UpperChars ==
    <<"A", "B", "C", "D", "E", "F", "G", "H", "I", "J", "K", "L", "M",
      "N", "O", "P", "Q", "R", "S", "T", "U", "V", "W", "X", "Y", "Z">>

LowerChars ==
    <<"a", "b", "c", "d", "e", "f", "g", "h", "i", "j", "k", "l", "m",
      "n", "o", "p", "q", "r", "s", "t", "u", "v", "w", "x", "y", "z">>

lower_char(c) ==
    IF \E i \in 1..Len(UpperChars) : UpperChars[i] = c
    THEN LowerChars[CHOOSE i \in 1..Len(UpperChars) : UpperChars[i] = c]
    ELSE c

lower(s) == [i \in 1..Len(s) |-> lower_char(s[i])]

\* ------------------------------------------- str.strip() and str.split()
Whitespace == {" ", "\t", "\n", "\r"}

RECURSIVE lstrip(_)
lstrip(s) ==
    IF s # <<>> /\ Head(s) \in Whitespace THEN lstrip(Tail(s)) ELSE s

RECURSIVE rstrip(_)
rstrip(s) ==
    IF s # <<>> /\ s[Len(s)] \in Whitespace
    THEN rstrip(SubSeq(s, 1, Len(s) - 1))
    ELSE s

strip(s) == rstrip(lstrip(s))

\* split() with no separator: runs of whitespace separate the tokens and
\* no empty token is produced.  cur is the token being read.
RECURSIVE SplitFrom(_, _, _)
SplitFrom(s, cur, acc) ==
    IF s = <<>>
    THEN IF cur = <<>> THEN acc ELSE Append(acc, cur)
    ELSE IF Head(s) \in Whitespace
         THEN SplitFrom(Tail(s), <<>>,
                        IF cur = <<>> THEN acc ELSE Append(acc, cur))
         ELSE SplitFrom(Tail(s), Append(cur, Head(s)), acc)

split(s) == SplitFrom(s, <<>>, <<>>)

\* ---------------------------------------------------------- EmojiSuggestion
\* The outcome of the field validator: ok = FALSE is the raised ValueError.
validate_emojis_off_by_one(v) ==
    IF Len(v) < MinEmojis - 1
    THEN [ok |-> FALSE, v |-> <<>>]
    ELSE [ok |-> TRUE, v |-> Take(v, MaxEmojis)]

validate_emojis_short_cut(v) ==
    IF Len(v) < MinEmojis
    THEN [ok |-> FALSE, v |-> <<>>]
    ELSE [ok |-> TRUE, v |-> Take(v, GenLimit)]

validate_emojis(v) ==
    IF Len(v) < MinEmojis
    THEN [ok |-> FALSE, v |-> <<>>]
    ELSE [ok |-> TRUE, v |-> Take(v, MaxEmojis)]

\* EmojiSuggestion(emojis=..., message=...): ok = FALSE is the raised
\* ValidationError, in which case no instance exists.
EmojiSuggestion(emojis, msg) ==
    LET r == validate_emojis(emojis)
    IN  [ok |-> r.ok, emojis |-> r.v, message |-> IF r.ok THEN msg ELSE <<>>]

NoSuggestion == [ok |-> FALSE, emojis |-> <<>>, message |-> <<>>]

\* -------------------------------------------------------- SentimentAnalyzer
\* The lists keep the library's length (10 each) and are pairwise distinct;
\* the n-th emoji of a category is the string <<category, n>>.
Ordinals == <<"01", "02", "03", "04", "05", "06", "07", "08", "09", "10">>

LibraryList(tag) == [i \in 1..Len(Ordinals) |-> <<tag, Ordinals[i]>>]

emoji_library ==
    [c \in {"happy", "sad", "love", "excited", "greeting", "neutral"}
        |-> LibraryList(c)]

\* dict order is declaration order
sentiment_map ==
    << [sentiment |-> "happy", keywords |-> <<
           <<"h", "a", "p", "p", "y">>,
           <<"j", "o", "y">>,
           <<"g", "o", "o", "d">>,
           <<"g", "r", "e", "a", "t">>,
           <<"a", "w", "e", "s", "o", "m", "e">> >>],
       [sentiment |-> "sad", keywords |-> <<
           <<"s", "a", "d">>,
           <<"b", "a", "d">>,
           <<"u", "p", "s", "e", "t">>,
           <<"u", "n", "h", "a", "p", "p", "y">> >>],
       [sentiment |-> "love", keywords |-> <<
           <<"l", "o", "v", "e">>,
           <<"h", "e", "a", "r", "t">>,
           <<"a", "d", "o", "r", "e">>,
           <<"c", "h", "e", "r", "i", "s", "h">> >>],
       [sentiment |-> "excited", keywords |-> <<
           <<"e", "x", "c", "i", "t", "e", "d">>,
           <<"w", "o", "w">>,
           <<"a", "m", "a", "z", "i", "n", "g">>,
           <<"t", "h", "r", "i", "l", "l", "e", "d">> >>],
       [sentiment |-> "greeting", keywords |-> <<
           <<"h", "e", "l", "l", "o">>,
           <<"h", "i">>,
           <<"h", "e", "y">>,
           <<"g", "r", "e", "e", "t", "i", "n", "g", "s">> >> ] >>

\* any(keyword in lower_msg for keyword in keywords) for the i-th entry
Matches(i, lower_msg) ==
    \E k \in 1..Len(sentiment_map[i].keywords) :
        Contains(sentiment_map[i].keywords[k], lower_msg)

detect_sentiment_last_match(msg) ==
    LET lower_msg == lower(msg)
        hits == {i \in 1..Len(sentiment_map) : Matches(i, lower_msg)}
    IN  IF hits # {}
        THEN sentiment_map[CHOOSE i \in hits : \A j \in hits : j <= i].sentiment
        ELSE IF Contains(<<"?">>, msg) THEN "confused" ELSE "neutral"

detect_sentiment_question_first(msg) ==
    LET lower_msg == lower(msg)
        hits == {i \in 1..Len(sentiment_map) : Matches(i, lower_msg)}
    IN  IF Contains(<<"?">>, msg)
        THEN "confused"
        ELSE IF hits # {}
             THEN sentiment_map[CHOOSE i \in hits : \A j \in hits : i <= j].sentiment
             ELSE "neutral"

detect_sentiment(msg) ==
    LET lower_msg == lower(msg)
        hits == {i \in 1..Len(sentiment_map) : Matches(i, lower_msg)}
    IN  IF hits # {}
        THEN sentiment_map[CHOOSE i \in hits : \A j \in hits : i <= j].sentiment
        ELSE IF Contains(<<"?">>, msg) THEN "confused" ELSE "neutral"

get_emojis_empty_default(s) ==
    IF s \in DOMAIN emoji_library THEN emoji_library[s] ELSE <<>>

get_emojis_happy_default(s) ==
    IF s \in DOMAIN emoji_library THEN emoji_library[s] ELSE emoji_library["happy"]

\* self.emoji_library.get(sentiment, self.emoji_library['neutral'])
get_emojis(s) ==
    IF s \in DOMAIN emoji_library THEN emoji_library[s] ELSE emoji_library["neutral"]

\* ------------------------------------------------------------------ inputs
Fragments ==
    << <<"h", "a", "p", "p", "y">>,
       <<"S", "a", "d">>,
       <<"l", "o", "v", "e">>,
       <<"W", "O", "W">>,
       <<"h", "i">>,
       <<"?">>,
       <<"b", "a", "n", "a", "n", "a">>,
       <<"u", "n">>,
       <<"t">>,
       <<"G", "r", "e", "a", "t">> >>

RECURSIVE Concat(_)
Concat(ss) == IF ss = <<>> THEN <<>> ELSE Head(ss) \o Concat(Tail(ss))

Messages ==
    UNION {{Concat([i \in 1..n |-> Fragments[f[i]]]) :
                f \in [1..n -> 1..Len(Fragments)]} : n \in 0..MaxFrags}

\* Generated tokens: single emoji and a multi-character emoji; with more
\* than three tokens some repeat.
TokenPool == << <<"e1">>, <<"e2">>, <<"e3", "zwj", "e4">> >>

Token(i) == TokenPool[(i % Len(TokenPool)) + 1]

Sep(style, i) ==
    IF style = 1 THEN <<" ">>
    ELSE IF i % 2 = 0 THEN <<" ", " ">> ELSE <<"\n", "\t">>

\* n tokens joined by whitespace, optionally padded with whitespace
RECURSIVE Joined(_, _)
Joined(n, style) ==
    IF n = 0 THEN <<>>
    ELSE IF n = 1 THEN Token(1)
    ELSE Joined(n - 1, style) \o Sep(style, n) \o Token(n)

Text(n, style, pad) ==
    IF pad THEN <<" ", "\n">> \o Joined(n, style) \o <<"\r", " ">>
    ELSE Joined(n, style)

Texts ==
    {Text(n, style, pad) : n \in 0..MaxTokens, style \in 1..2, pad \in BOOLEAN}

\* What makes GeminiClient.generate raise: transport error, timeout,
\* non-2xx status, malformed JSON, missing nested field.
FailureCauses == {"network", "timeout", "status", "json", "shape"}

\* Lists handed to the EmojiSuggestion constructor directly.
ListOf(n, off) == [i \in 1..n |-> Token(i + off)]

\* ------------------------------------------------------------------- state
VARIABLES
    pc,         \* position in suggest_emojis
    message,    \* its argument
    sentiment,  \* local variable sentiment
    response,   \* local variable response: [bound, str, text]; str = FALSE
                \* when the JSON field was not a string
    exc,        \* the exception caught by the except clause, or "none"
    result,     \* the returned EmojiSuggestion
    calls,      \* requests.post calls issued by this invocation
    ctorArg,    \* arguments of a direct EmojiSuggestion construction
    ctorRes     \* its outcome

vars == <<pc, message, sentiment, response, exc, result, calls, ctorArg, ctorRes>>

agentVars == <<pc, message, sentiment, response, exc, result, calls>>

ctorVars == <<ctorArg, ctorRes>>

\* The local variable response before its assignment.
NoResponse == [bound |-> FALSE, str |-> TRUE, text |-> <<>>]

NoArg == [emojis |-> <<>>, message |-> <<>>]

Init ==
    /\ pc = "idle"
    /\ message = <<>>
    /\ sentiment = "neutral"
    /\ response = NoResponse
    /\ exc = "none"
    /\ result = NoSuggestion
    /\ calls = 0
    /\ ctorArg = NoArg
    /\ ctorRes = NoSuggestion

\* ---------------------------------------------------- AIAgent.suggest_emojis
\* Entry: the try block classifies the message and builds the prompt.
Start(m) ==
    /\ pc = "idle"
    /\ pc' = "try"
    /\ message' = m
    /\ sentiment' = detect_sentiment(m)
    /\ response' = NoResponse
    /\ exc' = "none"
    /\ result' = NoSuggestion
    /\ calls' = 0
    /\ UNCHANGED ctorVars

\* self.gemini.generate(prompt) returns the text field of the reply.
GenerateReturns(r) ==
    /\ pc = "try"
    /\ calls' = calls + 1
    /\ response' = r
    /\ pc' = "returned"
    /\ UNCHANGED <<message, sentiment, exc, result, ctorVars>>

\* self.gemini.generate(prompt) raises ValueError("API request failed: ...").
GenerateRaises(cause) ==
    /\ pc = "try"
    /\ calls' = calls + 1
    /\ exc' = "ValueError"
    /\ pc' = "except"
    /\ UNCHANGED <<message, sentiment, response, result, ctorVars>>

\* emojis[:15]
FirstTokensWide(emojis) == Take(emojis, MaxEmojis)

FirstTokens(emojis) == Take(emojis, GenLimit)

\* response.strip().split(), then EmojiSuggestion(emojis=emojis[:15], ...)
BuildSuggestion ==
    /\ pc = "returned"
    /\ IF ~response.str
       THEN \* strip() on a non-string
            /\ exc' = "AttributeError"
            /\ pc' = "except"
            /\ UNCHANGED result
       ELSE LET emojis == split(strip(response.text))
                s == EmojiSuggestion(FirstTokens(emojis), message)
            IN  IF s.ok
                THEN /\ result' = s
                     /\ pc' = "done"
                     /\ UNCHANGED exc
                ELSE /\ exc' = "ValidationError"
                     /\ pc' = "except"
                     /\ UNCHANGED result
    /\ UNCHANGED <<message, sentiment, response, calls, ctorVars>>

FallbackRetry ==
    /\ pc = "except"
    /\ sentiment' = detect_sentiment(message)
    /\ calls' = calls + 1
    /\ LET s == EmojiSuggestion(get_emojis(sentiment'), message)
       IN  IF s.ok
           THEN result' = s /\ pc' = "done"
           ELSE result' = NoSuggestion /\ pc' = "raised"
    /\ UNCHANGED <<message, response, exc, ctorVars>>

\* The except clause: reclassify, look the list up, construct the result.
\* A failing construction here propagates to the caller (pc = "raised").
Fallback ==
    /\ pc = "except"
    /\ sentiment' = detect_sentiment(message)
    /\ LET s == EmojiSuggestion(get_emojis(sentiment'), message)
       IN  IF s.ok
           THEN result' = s /\ pc' = "done"
           ELSE result' = NoSuggestion /\ pc' = "raised"
    /\ UNCHANGED <<message, response, exc, calls, ctorVars>>

\* The caller consumes the suggestion; the invocation's locals are gone.
Return ==
    /\ pc = "done"
    /\ pc' = "idle"
    /\ message' = <<>>
    /\ sentiment' = "neutral"
    /\ response' = NoResponse
    /\ exc' = "none"
    /\ result' = NoSuggestion
    /\ calls' = 0
    /\ UNCHANGED ctorVars

Responses ==
    {[bound |-> TRUE, str |-> TRUE, text |-> t] : t \in Texts}
        \cup {[bound |-> TRUE, str |-> FALSE, text |-> <<>>]}

Next ==
    \/ \E m \in Messages : Start(m)
    \/ \E r \in Responses : GenerateReturns(r)
    \/ \E cause \in FailureCauses : GenerateRaises(cause)
    \/ BuildSuggestion
    \/ Fallback
    \/ Return

Spec == Init /\ [][Next]_vars

\* ------------------------------------------- direct use of EmojiSuggestion
Construct(v, m) ==
    /\ ctorArg' = [emojis |-> v, message |-> m]
    /\ ctorRes' = EmojiSuggestion(v, m)
    /\ UNCHANGED agentVars

CtorNext ==
    \E n \in 0..MaxListLen, off \in 0..2, m \in {Fragments[1], Fragments[6]} :
        Construct(ListOf(n, off), m)

CtorSpec == Init /\ [][CtorNext]_vars

\* -------------------------------------------------------------- properties
\* Categories matched by the lower-cased message, as positions in the
\* declaration order.
DeclaredOrder == <<"happy", "sad", "love", "excited", "greeting">>

Hits(m) == {i \in 1..Len(sentiment_map) : Matches(i, lower(m))}

HasQuestionMark(m) == \E i \in 1..Len(m) : m[i] = "?"

\* The response is a string that splits into exactly n tokens.
HasTokens(n) ==
    /\ response.bound
    /\ response.str
    /\ \E style \in 1..2, pad \in BOOLEAN : response.text = Text(n, style, pad)

Finished == pc \in {"done", "raised"}

\* C1: whatever the message and whatever generate returned or raised, the
\* invocation never ends with an exception reaching the caller, and when it
\* ends it has returned a constructed EmojiSuggestion.
C1_SuggestNeverFails ==
    /\ pc # "raised"
    /\ pc = "done" => result.ok /\ Len(result.emojis) >= 3

C1_Witness ==
    /\ pc = "done"
    /\ exc = "AttributeError"
    /\ sentiment = "confused"
    /\ result.ok

\* C2: a construction of EmojiSuggestion succeeds exactly when at least 3
\* emojis are given; a successful one holds between 3 and 20 emojis, all of
\* them when at most 20 were given and the first 20 in order otherwise.
C2_SuggestionValidity ==
    /\ ctorRes.ok <=> Len(ctorArg.emojis) >= 3
    /\ ctorRes.ok =>
          /\ Len(ctorRes.emojis) >= 3
          /\ Len(ctorRes.emojis) <= 20
          /\ Len(ctorArg.emojis) <= 20 => ctorRes.emojis = ctorArg.emojis
          /\ Len(ctorArg.emojis) > 20 =>
                ctorRes.emojis = SubSeq(ctorArg.emojis, 1, 20)
          /\ ctorRes.message = ctorArg.message

C2_Witness ==
    /\ ctorRes.ok
    /\ Len(ctorArg.emojis) = 21
    /\ Len(ctorRes.emojis) = 20

\* C3: when generate raised, the returned suggestion holds the library list
\* stored under the category classify assigned to the message, and the
\* original message.
C3_FallbackIsCategoryList ==
    (pc = "done" /\ exc = "ValueError") =>
        /\ sentiment \in DOMAIN emoji_library
        /\ result.emojis = emoji_library[sentiment]
        /\ result.message = message

\* C4: when generate returned text of n >= 3 whitespace-separated tokens,
\* the invocation ends on the generated path with exactly the first
\* min(n, 15) tokens in their order and the original message.
C4_GeneratedTokensKept ==
    \A n \in 3..MaxTokens :
        (HasTokens(n) /\ pc \in {"except", "done", "raised"}) =>
            /\ pc = "done"
            /\ exc = "none"
            /\ result.emojis = [i \in 1..(IF n < 15 THEN n ELSE 15) |-> Token(i)]
            /\ result.message = message

C4_Witness ==
    /\ pc = "done"
    /\ HasTokens(18)
    /\ Len(result.emojis) = 15
    /\ result.emojis[4] = result.emojis[1]

\* C5: a message matching keywords of two or more categories is classified
\* as the matching category declared earliest.
C5_EarliestDeclaredWins ==
    (pc # "idle" /\ Cardinality(Hits(message)) >= 2) =>
        \E i \in Hits(message) :
            /\ \A j \in Hits(message) : i <= j
            /\ sentiment = DeclaredOrder[i]

\* "hi" precedes "happy" in the message, "happy" is declared first.
C5_Witness ==
    /\ pc = "try"
    /\ message = <<"h", "i", "h", "a", "p", "p", "y">>
    /\ sentiment = "happy"

\* C6: a message matching no keyword is classified confused when it holds
\* a '?' and neutral otherwise, and only such messages are classified
\* confused or neutral.
C6_ConfusedOrNeutral ==
    pc # "idle" =>
        /\ Hits(message) = {} =>
              sentiment = IF HasQuestionMark(message) THEN "confused" ELSE "neutral"
        /\ sentiment \in {"confused", "neutral"} => Hits(message) = {}

C6_Witness ==
    /\ pc = "try"
    /\ message = <<"b", "a", "n", "a", "n", "a", "?">>
    /\ sentiment = "confused"

\* C7: the category classify returned has an entry in the emoji library,
\* of length at least 3.
C7_LibraryCoversCategories ==
    pc # "idle" =>
        /\ sentiment \in DOMAIN emoji_library
        /\ Len(emoji_library[sentiment]) >= 3

\* C8: an invocation issues no generation call before the try block runs
\* it, exactly one from then on, and never a second one, fallback included.
C8_OneGenerationCall ==
    /\ calls <= 1
    /\ pc = "try" => calls = 0
    /\ pc \in {"returned", "except", "done", "raised"} => calls = 1

C8_Witness ==
    /\ pc = "done"
    /\ exc = "ValidationError"
    /\ calls = 1

\* C9: when generate returned text of fewer than 3 tokens, the invocation
\* ends as it does after a generation failure: with the list the fallback
\* lookup gives for the message's category and the original message, not
\* with the generated tokens.
C9_TooFewTokensFallBack ==
    \A n \in 0..2 :
        (HasTokens(n) /\ Finished) =>
            /\ pc = "done"
            /\ exc = "ValidationError"
            /\ result.emojis = get_emojis(detect_sentiment(message))
            /\ result.emojis # [i \in 1..n |-> Token(i)]
            /\ result.message = message

C9_Witness ==
    /\ pc = "done"
    /\ HasTokens(2)
    /\ sentiment = "love"
    /\ result.emojis = emoji_library["love"]

\* C10: a message classified confused gets, on the fallback path, the
\* neutral list, the library holding no confused entry.
C10_ConfusedGetsNeutral ==
    (Finished /\ exc # "none" /\ sentiment = "confused") =>
        /\ pc = "done"
        /\ "confused" \notin DOMAIN emoji_library
        /\ result.emojis = emoji_library["neutral"]
        /\ result.message = message

C10_Witness ==
    /\ pc = "done"
    /\ exc = "ValueError"
    /\ sentiment = "confused"
    /\ result.emojis = emoji_library["neutral"]

====
